---- MODULE Spec2Model ----
(***************************************************************************)
(* django-hook: the hook registry (django_hook/registry.py) and the        *)
(* dispatcher (django_hook/core.py, django_hooks/core.py).                 *)
(*                                                                         *)
(* Python lists are objects: the registry's dict maps a hook name to a     *)
(* list object, and get_hooks / get_all_hooks hand out references to those *)
(* objects.  The model therefore keeps a heap of list objects (heap) and   *)
(* a dict of references (hooks); every reference a caller keeps (held,     *)
(* snap, the iterator of a running invoke) points into the same heap.      *)
(***************************************************************************)
EXTENDS Integers, Sequences, FiniteSets, TLC

\* ---------------------------------------------------------------- inputs
HookNames == {"h1", "h2"}
Apps == {"app1", "app2"}
Funcs == {"ok", "bad", "reg"}

\* Bound on the number of registrations the callers make in total.
MaxEntries == 3

\* The threads that may be inside register() at the same time.
Threads == {"t1", "t2"}

\* Identities of list objects; 0 is None.
Ids == 1 .. (2 * Cardinality(HookNames) + 2)

\* Python values a callable returns and an aggregator receives: None, bool,
\* int, str, list (items) and dict (pairs in key order).
PyNone == [t |-> "none", n |-> 0, s |-> "", items |-> <<>>, pairs |-> <<>>]
PyBool(b) == [t |-> "bool", n |-> IF b THEN 1 ELSE 0, s |-> "", items |-> <<>>, pairs |-> <<>>]
PyInt(k) == [t |-> "int", n |-> k, s |-> "", items |-> <<>>, pairs |-> <<>>]
PyStr(x) == [t |-> "str", n |-> 0, s |-> x, items |-> <<>>, pairs |-> <<>>]
PyList(xs) == [t |-> "list", n |-> 0, s |-> "", items |-> xs, pairs |-> <<>>]
PyDict(ps) == [t |-> "dict", n |-> 0, s |-> "", items |-> <<>>, pairs |-> ps]

\* What a registered callable does when it is called: return a value, raise
\* an Exception, or call hook_registry.register, hook_registry.clear or
\* hook_registry.get_hooks itself and then return ("look" returns the length
\* of what get_hooks gave it).
Behaviour(f) ==
    CASE f = "ok"  -> [kind |-> "return", value |-> PyInt(1)]
      [] f = "txt" -> [kind |-> "return", value |-> PyStr("x")]
      [] f = "bad" -> [kind |-> "raise", exc |-> "ValueError", msg |-> "boom"]
      [] f = "miss" -> [kind |-> "raise", exc |-> "KeyError", msg |-> "'boom'"]
      [] f = "reg" -> [kind |-> "register", value |-> PyInt(2),
                       hook |-> "h1", func |-> "ok", app |-> "app2"]
      [] f = "clr" -> [kind |-> "clear", value |-> PyInt(3)]
      [] f = "look" -> [kind |-> "lookup", hook |-> "h1"]

Fails(f) == Behaviour(f).kind = "raise"

VARIABLES
    heap,          \* list objects: id -> sequence of <<app_name, hook_func>>
    hooks,         \* HookRegistry._hooks: hook name -> id of its list
    pc,            \* "idle", or "running" while an invoke is in its loop
    hook_name,     \* invoke: the hook being invoked
    it,            \* invoke: the list object the for loop iterates
    idx,           \* invoke: number of elements the iterator has yielded
    results,       \* invoke (django_hook): dict app_name -> result, in key order
    results_list,  \* invoke (django_hooks): list of results
    events,        \* invoke: the calls made and the error reports logged, in order
    start,         \* invoke: contents of the list when the loop started
    last,          \* the last completed operation with what it returned
    held,          \* a list a caller got from get_hooks and kept (0: none)
    snap,          \* a dict a caller got from get_all_hooks and kept (<<>>: none)
    thr,           \* threads inside register(): where each is and its arguments
    decos          \* decorator objects made by hook(): the hook_name cell of each closure

vars == <<heap, hooks, pc, hook_name, it, idx, results, results_list, events,
          start, last, held, snap, thr, decos>>

invokeVars == <<hook_name, it, idx, results, results_list, events, start>>

\* ------------------------------------------------------------- helpers
Range(s) == {s[i] : i \in DOMAIN s}

Restrict(f, S) == [x \in (DOMAIN f) \cap S |-> f[x]]

\* The table as a reader sees it: hook name -> contents of its list.
TableOf(hp, hk) == [n \in DOMAIN hk |-> hp[hk[n]]]

Table == TableOf(heap, hooks)

TotalEntries(t) ==
    LET RECURSIVE Sum(_)
        Sum(S) == IF S = {} THEN 0
                  ELSE LET n == CHOOSE x \in S : TRUE
                       IN Len(t[n]) + Sum(S \ {n})
    IN Sum(DOMAIN t)

HasEntry(t, n, a, f) == n \in DOMAIN t /\ <<a, f>> \in Range(t[n])

HasRegistrations(t, n) == n \in DOMAIN t /\ t[n] # <<>>

Count(s, x) == Cardinality({i \in DOMAIN s : s[i] = x})

\* A new list object gets an identity no live object has.
Alloc(hp) == CHOOSE i \in Ids : i \notin DOMAIN hp
                               /\ \A j \in Ids : j \notin DOMAIN hp => i <= j

\* The references that keep list objects alive.
Roots(hk, hd, sn, iter) ==
    Range(hk) \cup {hd, iter} \cup (IF sn = <<>> THEN {} ELSE Range(sn[1]))

\* Reference counting: a list nothing refers to is gone.
Collect(hp, roots) == Restrict(hp, roots)

\* ------------------------------------------------- HookRegistry (registry.py)
IsDuplicate_FirstOnly(items, app_name, hook_func) ==
    Len(items) > 0 /\ items[1][1] = app_name /\ items[1][2] = hook_func

\* registry.py 25-27: the scan for an equal (app_name, hook_func).
IsDuplicate(items, app_name, hook_func) ==
    \E i \in 1 .. Len(items) : items[i][1] = app_name /\ items[i][2] = hook_func

AddEntry_Front(items, app_name, hook_func) == <<<<app_name, hook_func>>>> \o items

\* registry.py 29: list.append.
AddEntry(items, app_name, hook_func) == Append(items, <<app_name, hook_func>>)

\* registry.py 12-29.
register(hp, hk, name, hook_func, app_name) ==
    LET known == name \in DOMAIN hk
        new   == Alloc(hp)
        hk1   == IF known THEN hk ELSE hk @@ (name :> new)
        hp1   == IF known THEN hp ELSE hp @@ (new :> <<>>)
        lst   == hk1[name]
    IN IF IsDuplicate(hp1[lst], app_name, hook_func)
       THEN [heap |-> hp1, hooks |-> hk1]
       ELSE [heap |-> [hp1 EXCEPT ![lst] = AddEntry(@, app_name, hook_func)],
             hooks |-> hk1]

get_hooks_KeyError(hp, hk, name) ==
    IF name \in DOMAIN hk
    THEN [heap |-> hp, hooks |-> hk, ref |-> hk[name], err |-> FALSE]
    ELSE [heap |-> hp @@ (Alloc(hp) :> <<>>), hooks |-> hk, ref |-> Alloc(hp), err |-> TRUE]

get_hooks_SetDefault(hp, hk, name) ==
    IF name \in DOMAIN hk
    THEN [heap |-> hp, hooks |-> hk, ref |-> hk[name], err |-> FALSE]
    ELSE [heap |-> hp @@ (Alloc(hp) :> <<>>), hooks |-> hk @@ (name :> Alloc(hp)),
          ref |-> Alloc(hp), err |-> FALSE]

\* registry.py 31-38: dict.get(hook_name, []) returns the stored list object
\* itself, or a new empty list when the name is not a key; the dict is not
\* changed.
get_hooks(hp, hk, name) ==
    IF name \in DOMAIN hk
    THEN [heap |-> hp, hooks |-> hk, ref |-> hk[name], err |-> FALSE]
    ELSE [heap |-> hp @@ (Alloc(hp) :> <<>>), hooks |-> hk, ref |-> Alloc(hp), err |-> FALSE]

\* registry.py 40-47: dict.copy() is a new dict holding the same list objects.
get_all_hooks(hk) == hk

clear_KeepKeys(hp, hk) ==
    [heap |-> [i \in DOMAIN hp |-> IF i \in Range(hk) THEN <<>> ELSE hp[i]],
     hooks |-> hk]

clear_EmptyLists(hp, hk) ==
    [heap |-> [i \in DOMAIN hp |-> IF i \in Range(hk) THEN <<>> ELSE hp[i]],
     hooks |-> <<>>]

\* registry.py 49-51: dict.clear() drops every key; the list objects are untouched.
clear(hp, hk) == [heap |-> hp, hooks |-> <<>>]

\* ------------------------------------------------------- HookSystem (core.py)
\* django_hook/core.py 28: results[app_name] = result on an insertion-ordered dict.
DictSet(d, k, v) ==
    IF \E i \in 1 .. Len(d) : d[i][1] = k
    THEN [i \in 1 .. Len(d) |-> IF d[i][1] = k THEN <<k, v>> ELSE d[i]]
    ELSE Append(d, <<k, v>>)

\* list(results.values())
Values(d) == [i \in 1 .. Len(d) |-> d[i][2]]

\* ------------------------------------------------------ aggregators (utils.py)
IsNumber(v) == v.t \in {"int", "bool"}

\* Python truth value.
Truthy(v) ==
    CASE v.t = "none" -> FALSE
      [] v.t \in {"int", "bool"} -> v.n # 0
      [] v.t = "str" -> v.s # ""
      [] v.t = "list" -> v.items # <<>>
      [] v.t = "dict" -> v.pairs # <<>>

\* utils.py 4-6: sum(results) is 0 + r1 + r2 + ...; adding a value that is
\* not a number to an int raises TypeError.
aggregate_sum(rs) ==
    LET RECURSIVE Total(_)
        Total(s) == IF s = <<>> THEN 0 ELSE s[1].n + Total(Tail(s))
    IN IF \A i \in DOMAIN rs : IsNumber(rs[i])
       THEN [err |-> FALSE, val |-> PyInt(Total(rs))]
       ELSE [err |-> TRUE, val |-> PyNone]

aggregate_list_Deep(rs) ==
    LET RECURSIVE Flat(_)
        Flat(s) == IF s = <<>> THEN <<>>
                   ELSE (IF s[1].t = "list" THEN Flat(s[1].items) ELSE <<s[1]>>)
                        \o Flat(Tail(s))
    IN [err |-> FALSE, val |-> PyList(Flat(rs))]

\* utils.py 9-15: the items of a result that is a list, the result itself otherwise.
aggregate_list(rs) ==
    LET RECURSIVE Flat(_)
        Flat(s) == IF s = <<>> THEN <<>>
                   ELSE (IF s[1].t = "list" THEN s[1].items ELSE <<s[1]>>)
                        \o Flat(Tail(s))
    IN [err |-> FALSE, val |-> PyList(Flat(rs))]

\* dict.update(other): every pair of other is stored, in other's order.
DictUpdate(d, ps) ==
    LET RECURSIVE U(_, _)
        U(acc, rest) == IF rest = <<>> THEN acc
                        ELSE U(DictSet(acc, rest[1][1], rest[1][2]), Tail(rest))
    IN U(d, ps)

aggregate_dict_FirstWins(rs) ==
    LET Keep(acc, ps) == acc \o SelectSeq(ps, LAMBDA kv :
                             \A j \in DOMAIN acc : acc[j][1] # kv[1])
        RECURSIVE Merge(_, _)
        Merge(acc, s) == IF s = <<>> THEN acc
                         ELSE Merge(IF s[1].t = "dict" THEN Keep(acc, s[1].pairs)
                                    ELSE acc, Tail(s))
    IN [err |-> FALSE, val |-> PyDict(Merge(<<>>, rs))]

\* utils.py 18-24: update an empty dict with every result that is a dict.
aggregate_dict(rs) ==
    LET RECURSIVE Merge(_, _)
        Merge(acc, s) == IF s = <<>> THEN acc
                         ELSE Merge(IF s[1].t = "dict" THEN DictUpdate(acc, s[1].pairs)
                                    ELSE acc, Tail(s))
    IN [err |-> FALSE, val |-> PyDict(Merge(<<>>, rs))]

aggregate_first_non_none_Truthy(rs) ==
    LET RECURSIVE First(_)
        First(s) == IF s = <<>> THEN PyNone
                    ELSE IF Truthy(s[1]) THEN s[1] ELSE First(Tail(s))
    IN [err |-> FALSE, val |-> First(rs)]

\* utils.py 27-32: the first result that is not None, else None.
aggregate_first_non_none(rs) ==
    LET RECURSIVE First(_)
        First(s) == IF s = <<>> THEN PyNone
                    ELSE IF s[1].t # "none" THEN s[1] ELSE First(Tail(s))
    IN [err |-> FALSE, val |-> First(rs)]

\* utils.py 35-37.
aggregate_all(rs) == [err |-> FALSE, val |-> PyList(rs)]

Aggregators == {"sum", "list", "dict", "first", "all"}

\* aggregator(results) for the aggregator the caller passed.
Aggregate(agg, rs) ==
    CASE agg = "sum" -> aggregate_sum(rs)
      [] agg = "list" -> aggregate_list(rs)
      [] agg = "dict" -> aggregate_dict(rs)
      [] agg = "first" -> aggregate_first_non_none(rs)
      [] agg = "all" -> aggregate_all(rs)

Catches_Nothing(exc) == FALSE

\* The base class of each built-in exception class a callable may raise.
ExceptionBase(c) ==
    CASE c = "BaseException" -> "object"
      [] c \in {"Exception", "SystemExit", "KeyboardInterrupt", "GeneratorExit"}
             -> "BaseException"
      [] c \in {"ValueError", "TypeError", "RuntimeError", "AttributeError",
                "LookupError", "ArithmeticError"} -> "Exception"
      [] c \in {"KeyError", "IndexError"} -> "LookupError"
      [] c = "ZeroDivisionError" -> "ArithmeticError"

RECURSIVE IsSubclass(_, _)
IsSubclass(c, k) ==
    \/ c = k
    \/ c # "object" /\ IsSubclass(ExceptionBase(c), k)

\* core.py 29: except Exception catches Exception and every subclass of it,
\* and lets SystemExit, KeyboardInterrupt and GeneratorExit through.
Catches(exc) == IsSubclass(exc, "Exception")

CallEvent(name, e) ==
    [type |-> "call", hook |-> name, app |-> e[1], func |-> e[2], msg |-> ""]

LogError_Silent(evs, name, e, msg) == evs

\* core.py 31-34: logger.error(f"Error executing hook {hook_name} in app {app_name}: {e}")
LogError(evs, name, e, msg) ==
    Append(evs, [type |-> "log", hook |-> name, app |-> e[1], func |-> e[2], msg |-> msg])

Calls(evs) ==
    LET RECURSIVE C(_)
        C(s) == IF s = <<>> THEN <<>>
                ELSE IF s[1].type = "call"
                     THEN <<<<s[1].app, s[1].func>>>> \o C(Tail(s))
                     ELSE C(Tail(s))
    IN C(evs)

Logs(evs) == SelectSeq(evs, LAMBDA x : x.type = "log")

Idle ==
    /\ pc' = "idle" /\ hook_name' = "" /\ it' = 0 /\ idx' = 0 /\ results' = <<>>
    /\ results_list' = <<>> /\ events' = <<>> /\ start' = <<>>

\* A thread that is not inside register(); returned holds the registrations
\* whose register() call this thread has made and seen return.
ThreadIdle == [pc |-> "idle", hook |-> "", func |-> "", app |-> "", returned |-> {}]

\* ---------------------------------------------------------------- actions
Init ==
    /\ heap = <<>> /\ hooks = <<>> /\ pc = "idle" /\ hook_name = "" /\ it = 0
    /\ idx = 0 /\ results = <<>> /\ results_list = <<>> /\ events = <<>>
    /\ start = <<>> /\ last = [op |-> "init"] /\ held = 0 /\ snap = <<>>
    /\ thr = [t \in Threads |-> ThreadIdle] /\ decos = <<>>

AfterClear == last.op = "clear"

\* A caller's hook_registry.register(name, hook_func, app_name).
Register(name, hook_func, app_name) ==
    /\ pc = "idle"
    /\ TotalEntries(Table) < MaxEntries \/ HasEntry(Table, name, app_name, hook_func)
    /\ LET r == register(heap, hooks, name, hook_func, app_name)
       IN /\ hooks' = r.hooks
          /\ heap' = Collect(r.heap, Roots(r.hooks, held, snap, it))
    /\ last' = [op |-> "register", hook |-> name, app |-> app_name, func |-> hook_func,
                dup |-> HasEntry(Table, name, app_name, hook_func),
                re |-> AfterClear /\ HasEntry(last.wiped, name, app_name, hook_func)]
    /\ UNCHANGED <<pc, invokeVars, held, snap, thr, decos>>

\* A caller's hook_registry.clear().
Clear ==
    /\ pc = "idle"
    /\ LET r == clear(heap, hooks)
       IN /\ hooks' = r.hooks
          /\ heap' = Collect(r.heap, Roots(r.hooks, held, snap, it))
    /\ last' = [op |-> "clear", wiped |-> Table]
    /\ UNCHANGED <<pc, invokeVars, held, snap, thr, decos>>

\* A caller's get_hooks(name) / HookSystem.get_hook_implementations(name),
\* looked at and dropped.
GetHooks(name) ==
    /\ pc = "idle"
    /\ LET r == get_hooks(heap, hooks, name)
       IN /\ hooks' = r.hooks
          /\ heap' = Collect(r.heap, Roots(r.hooks, held, snap, it))
          /\ last' = [op |-> "get_hooks", hook |-> name, err |-> r.err,
                      ret |-> r.heap[r.ref], known |-> HasRegistrations(Table, name),
                      re |-> AfterClear /\ name \in DOMAIN last.wiped]
    /\ UNCHANGED <<pc, invokeVars, held, snap, thr, decos>>

\* A caller's get_all_hooks(), looked at and dropped.
GetAllHooks ==
    /\ pc = "idle"
    /\ LET d == get_all_hooks(hooks)
       IN last' = [op |-> "get_all_hooks", ret |-> TableOf(heap, d),
                   re |-> AfterClear /\ DOMAIN last.wiped # {}]
    /\ UNCHANGED <<heap, hooks, pc, invokeVars, held, snap, thr, decos>>

\* core.py 23-25: results = {}; the for loop takes an iterator of what
\* get_hooks returned.
InvokeStart(name) ==
    /\ pc = "idle"
    /\ LET r == get_hooks(heap, hooks, name)
       IN IF r.err
          THEN /\ Idle
               /\ heap' = heap /\ hooks' = hooks
               /\ last' = [op |-> "invoke", hook |-> name, outcome |-> "raised",
                           known |-> HasRegistrations(Table, name), re |-> FALSE,
                           ret |-> <<>>, ret_list |-> <<>>, events |-> <<>>,
                           start |-> <<>>, regs |-> <<>>]
          ELSE /\ pc' = "running" /\ hook_name' = name /\ it' = r.ref /\ idx' = 0
               /\ results' = <<>> /\ results_list' = <<>> /\ events' = <<>>
               /\ start' = r.heap[r.ref]
               /\ hooks' = r.hooks
               /\ heap' = Collect(r.heap, Roots(r.hooks, held, snap, r.ref))
               /\ last' = [op |-> "invoking", hook |-> name,
                           known |-> HasRegistrations(Table, name),
                           re |-> AfterClear /\ name \in DOMAIN last.wiped]
    /\ UNCHANGED <<held, snap, thr, decos>>

\* core.py 25-34: one turn of the loop.  The list iterator yields the element
\* at its index if the list (as it is now) has one; the callable runs, and
\* its result is stored or its exception is logged.
InvokeStep ==
    /\ pc = "running"
    /\ idx < Len(heap[it])
    /\ LET e == heap[it][idx + 1]
           b == Behaviour(e[2])
           called == Append(events, CallEvent(hook_name, e))
           r == CASE b.kind = "register" -> register(heap, hooks, b.hook, b.func, b.app)
                  [] b.kind = "clear" -> clear(heap, hooks)
                  [] b.kind = "lookup" -> get_hooks(heap, hooks, b.hook)
                  [] OTHER -> [heap |-> heap, hooks |-> hooks]
           value == IF b.kind = "lookup" THEN PyInt(Len(r.heap[r.ref])) ELSE b.value
       IN IF b.kind = "raise" /\ ~Catches(b.exc)
          THEN /\ Idle
               /\ hooks' = r.hooks
               /\ heap' = Collect(r.heap, Roots(r.hooks, held, snap, 0))
               /\ last' = [op |-> "invoke", hook |-> hook_name, outcome |-> "raised",
                           known |-> last.known, re |-> last.re,
                           ret |-> results, ret_list |-> results_list,
                           events |-> called, start |-> start, regs |-> heap[it]]
          ELSE /\ hooks' = r.hooks
               /\ heap' = Collect(r.heap, Roots(r.hooks, held, snap, it))
               /\ idx' = idx + 1
               /\ IF b.kind = "raise"
                  THEN /\ events' = LogError(called, hook_name, e, b.msg)
                       /\ UNCHANGED <<results, results_list>>
                  ELSE /\ events' = called
                       /\ results' = DictSet(results, e[1], value)
                       /\ results_list' = Append(results_list, value)
               /\ UNCHANGED <<pc, hook_name, it, start, last>>
    /\ UNCHANGED <<held, snap, thr, decos>>

\* core.py 36: the iterator is exhausted; return results.
InvokeReturn ==
    /\ pc = "running" /\ last.op = "invoking"
    /\ idx >= Len(heap[it])
    /\ Idle
    /\ heap' = Collect(heap, Roots(hooks, held, snap, 0))
    /\ last' = [op |-> "invoke", hook |-> hook_name, outcome |-> "returned",
                known |-> last.known, re |-> last.re,
                ret |-> results, ret_list |-> results_list,
                events |-> events, start |-> start, regs |-> heap[it]]
    /\ UNCHANGED <<hooks, held, snap, thr, decos>>

Next ==
    \/ \E n \in HookNames, f \in Funcs, a \in Apps : Register(n, f, a)
    \/ Clear
    \/ \E n \in HookNames : GetHooks(n)
    \/ GetAllHooks
    \/ \E n \in HookNames : InvokeStart(n)
    \/ InvokeStep
    \/ InvokeReturn

Spec == Init /\ [][Next]_vars

\* ------------------------------------------- callers that keep what they got
\* Entries a caller puts into a list it was handed.
ClientEntries == {<<"ext", "bad">>}

\* The callables registered while callers keep references.
AliasFuncs == {"ok"}

AliasApps == {"app1"}

HeapEntries ==
    LET RECURSIVE Sum(_)
        Sum(S) == IF S = {} THEN 0
                  ELSE LET i == CHOOSE x \in S : TRUE
                       IN Len(heap[i]) + Sum(S \ {i})
    IN Sum(DOMAIN heap)

SnapView == IF snap = <<>> THEN <<>> ELSE TableOf(heap, snap[1])

\* hooks = registry.get_hooks(name), and the caller keeps the list.
HoldHooks(name) ==
    /\ pc = "idle"
    /\ LET r == get_hooks(heap, hooks, name)
       IN /\ held' = r.ref
          /\ hooks' = r.hooks
          /\ heap' = Collect(r.heap, Roots(r.hooks, r.ref, snap, it))
          /\ last' = [op |-> "get_hooks", hook |-> name, err |-> r.err,
                      ret |-> r.heap[r.ref], known |-> HasRegistrations(Table, name),
                      re |-> AfterClear /\ name \in DOMAIN last.wiped]
    /\ UNCHANGED <<pc, invokeVars, snap, thr, decos>>

\* The caller's hooks.append(e).
HeldAppend(e) ==
    /\ pc = "idle" /\ held # 0
    /\ HeapEntries < MaxEntries
    /\ heap' = [heap EXCEPT ![held] = Append(@, e)]
    /\ last' = [op |-> "mutate_held", how |-> "append"]
    /\ UNCHANGED <<hooks, pc, invokeVars, held, snap, thr, decos>>

\* The caller's hooks.pop().
HeldPop ==
    /\ pc = "idle" /\ held # 0
    /\ heap[held] # <<>>
    /\ heap' = [heap EXCEPT ![held] = SubSeq(@, 1, Len(@) - 1)]
    /\ last' = [op |-> "mutate_held", how |-> "pop"]
    /\ UNCHANGED <<hooks, pc, invokeVars, held, snap, thr, decos>>

\* The caller's hooks.reverse().
HeldReverse ==
    /\ pc = "idle" /\ held # 0
    /\ Len(heap[held]) >= 2
    /\ heap' = [heap EXCEPT ![held] = [i \in 1 .. Len(@) |-> @[Len(@) + 1 - i]]]
    /\ last' = [op |-> "mutate_held", how |-> "reverse"]
    /\ UNCHANGED <<hooks, pc, invokeVars, held, snap, thr, decos>>

\* all_hooks = registry.get_all_hooks(), and the caller keeps the dict.
HoldAllHooks ==
    /\ pc = "idle"
    /\ snap' = <<get_all_hooks(hooks)>>
    /\ heap' = Collect(heap, Roots(hooks, held, snap', it))
    /\ last' = [op |-> "get_all_hooks", ret |-> TableOf(heap, get_all_hooks(hooks)),
                re |-> AfterClear /\ DOMAIN last.wiped # {}]
    /\ UNCHANGED <<hooks, pc, invokeVars, held, thr, decos>>

\* The caller's all_hooks[name] = [].
SnapSetKey(name) ==
    /\ pc = "idle" /\ snap # <<>>
    /\ name \notin DOMAIN snap[1]
    /\ LET new == Alloc(heap)
           d == snap[1] @@ (name :> new)
       IN /\ snap' = <<d>>
          /\ heap' = Collect(heap @@ (new :> <<>>), Roots(hooks, held, <<d>>, it))
    /\ last' = [op |-> "mutate_snap", how |-> "set_key"]
    /\ UNCHANGED <<hooks, pc, invokeVars, held, thr, decos>>

\* The caller's del all_hooks[name].
SnapDelKey(name) ==
    /\ pc = "idle" /\ snap # <<>>
    /\ name \in DOMAIN snap[1]
    /\ LET d == Restrict(snap[1], DOMAIN snap[1] \ {name})
       IN /\ snap' = <<d>>
          /\ heap' = Collect(heap, Roots(hooks, held, <<d>>, it))
    /\ last' = [op |-> "mutate_snap", how |-> "del_key"]
    /\ UNCHANGED <<hooks, pc, invokeVars, held, thr, decos>>

\* The caller's all_hooks[name].append(e).
SnapAppend(name, e) ==
    /\ pc = "idle" /\ snap # <<>>
    /\ name \in DOMAIN snap[1]
    /\ HeapEntries < MaxEntries
    /\ heap' = [heap EXCEPT ![snap[1][name]] = Append(@, e)]
    /\ last' = [op |-> "mutate_snap", how |-> "append"]
    /\ UNCHANGED <<hooks, pc, invokeVars, held, snap, thr, decos>>

\* The caller's all_hooks[name].pop().
SnapPop(name) ==
    /\ pc = "idle" /\ snap # <<>>
    /\ name \in DOMAIN snap[1]
    /\ heap[snap[1][name]] # <<>>
    /\ heap' = [heap EXCEPT ![snap[1][name]] = SubSeq(@, 1, Len(@) - 1)]
    /\ last' = [op |-> "mutate_snap", how |-> "pop"]
    /\ UNCHANGED <<hooks, pc, invokeVars, held, snap, thr, decos>>

\* A caller that keeps and changes the list get_hooks returned.
NextHeld ==
    \/ \E n \in HookNames, f \in AliasFuncs, a \in Apps : Register(n, f, a)
    \/ Clear
    \/ \E n \in HookNames : HoldHooks(n)
    \/ \E e \in ClientEntries : HeldAppend(e)
    \/ HeldPop
    \/ HeldReverse

SpecHeld == Init /\ [][NextHeld]_vars

\* A caller that keeps and changes the dict get_all_hooks returned.
NextSnap ==
    \/ \E n \in HookNames, f \in AliasFuncs, a \in AliasApps : Register(n, f, a)
    \/ Clear
    \/ HoldAllHooks
    \/ \E n \in HookNames : SnapSetKey(n)
    \/ \E n \in HookNames : SnapDelKey(n)
    \/ \E n \in HookNames, e \in ClientEntries : SnapAppend(n, e)
    \/ \E n \in HookNames : SnapPop(n)

SpecSnap == Init /\ [][NextSnap]_vars

\* ------------------------------------------------ HookSystem.invoke_aggregate
invoke_aggregate_Keys(agg, res) ==
    Aggregate(agg, [i \in 1 .. Len(res) |-> PyStr(res[i][1])])

invoke_aggregate_Swallow(agg, res) ==
    LET a == Aggregate(agg, Values(res))
    IN IF a.err THEN [err |-> FALSE, val |-> PyNone] ELSE a

\* django_hook/core.py 54-55: aggregator(list(results.values())); an exception
\* of the aggregator is not caught.
invoke_aggregate(agg, res) == Aggregate(agg, Values(res))

\* django_hooks/core.py 52-53: aggregator(results).
invoke_aggregate_list(agg, reslist) == Aggregate(agg, reslist)

\* The callables and hook names registered where invoke_aggregate is used.
AggFuncs == {"ok", "txt", "bad", "reg"}

AggNames == {"h1"}

\* core.py 54: results = cls.invoke(hook_name, ...) starts the loop of invoke.
AggregateStart(name, agg) ==
    /\ pc = "idle"
    /\ LET r == get_hooks(heap, hooks, name)
           prev == IF /\ last.op = "invoke" /\ last.hook = name
                      /\ last.outcome = "returned" /\ last.start = r.heap[r.ref]
                   THEN <<[ret |-> last.ret, ret_list |-> last.ret_list]>>
                   ELSE <<>>
       IN IF r.err
          THEN /\ Idle
               /\ heap' = heap /\ hooks' = hooks
               /\ last' = [op |-> "invoke_aggregate", hook |-> name, agg |-> agg,
                           outcome |-> "raised", ret |-> PyNone,
                           outcome_list |-> "raised", ret_list |-> PyNone,
                           invoked |-> <<>>, invoked_list |-> <<>>, events |-> <<>>,
                           start |-> <<>>, regs |-> <<>>, prev |-> prev,
                           known |-> HasRegistrations(Table, name), re |-> FALSE]
          ELSE /\ pc' = "running" /\ hook_name' = name /\ it' = r.ref /\ idx' = 0
               /\ results' = <<>> /\ results_list' = <<>> /\ events' = <<>>
               /\ start' = r.heap[r.ref]
               /\ hooks' = r.hooks
               /\ heap' = Collect(r.heap, Roots(r.hooks, held, snap, r.ref))
               /\ last' = [op |-> "aggregating", hook |-> name, agg |-> agg,
                           prev |-> prev,
                           known |-> HasRegistrations(Table, name),
                           re |-> AfterClear /\ name \in DOMAIN last.wiped]
    /\ UNCHANGED <<held, snap, thr, decos>>

\* core.py 55: invoke has returned its results; the aggregator is applied.
AggregateReturn ==
    /\ pc = "running" /\ last.op = "aggregating"
    /\ idx >= Len(heap[it])
    /\ Idle
    /\ heap' = Collect(heap, Roots(hooks, held, snap, 0))
    /\ LET a == invoke_aggregate(last.agg, results)
           al == invoke_aggregate_list(last.agg, results_list)
       IN last' = [op |-> "invoke_aggregate", hook |-> hook_name, agg |-> last.agg,
                   outcome |-> IF a.err THEN "raised" ELSE "returned", ret |-> a.val,
                   outcome_list |-> IF al.err THEN "raised" ELSE "returned",
                   ret_list |-> al.val,
                   invoked |-> results, invoked_list |-> results_list,
                   events |-> events, start |-> start, regs |-> heap[it],
                   prev |-> last.prev, known |-> last.known, re |-> last.re]
    /\ UNCHANGED <<hooks, held, snap, thr, decos>>

NextAgg ==
    \/ \E n \in AggNames, f \in AggFuncs, a \in Apps : Register(n, f, a)
    \/ Clear
    \/ \E n \in HookNames : GetHooks(n)
    \/ GetAllHooks
    \/ \E n \in HookNames : InvokeStart(n)
    \/ InvokeStep
    \/ InvokeReturn
    \/ \E n \in HookNames, agg \in Aggregators : AggregateStart(n, agg)
    \/ AggregateReturn

SpecAgg == Init /\ [][NextAgg]_vars

\* ------------------------------------------- callables that clear and look up
ClrNames == {"h1"}

ClrFuncs == {"ok", "bad", "miss", "clr", "look"}

NextClr ==
    \/ \E n \in ClrNames, f \in ClrFuncs, a \in Apps : Register(n, f, a)
    \/ Clear
    \/ \E n \in ClrNames : GetHooks(n)
    \/ GetAllHooks
    \/ \E n \in ClrNames : InvokeStart(n)
    \/ InvokeStep
    \/ InvokeReturn

SpecClr == Init /\ [][NextClr]_vars

\* --------------------------------------- register() called by several threads
\* registry.py has no lock: a thread may be switched out between the
\* statements of register, which all go through self._hooks again.
ConcNames == {"h1"}

ConcFuncs == {"ok"}

\* registry.py 29 / return: the call of thread t returns.
register_return(th, t) ==
    [th EXCEPT ![t] = [pc |-> "idle", hook |-> "", func |-> "", app |-> "",
                       returned |-> @.returned \cup {<<th[t].hook, th[t].app, th[t].func>>}]]

\* registry.py 21: if hook_name not in self._hooks
register_check(t, name, hook_func, app_name) ==
    /\ pc = "idle" /\ thr[t].pc = "idle"
    /\ thr' = [thr EXCEPT ![t] = [pc |-> IF name \in DOMAIN hooks THEN "scan" ELSE "create",
                                  hook |-> name, func |-> hook_func, app |-> app_name,
                                  returned |-> @.returned]]
    /\ UNCHANGED <<heap, hooks, pc, invokeVars, last, held, snap, decos>>

\* registry.py 22: self._hooks[hook_name] = []
register_create(t) ==
    /\ thr[t].pc = "create"
    /\ LET new == Alloc(heap)
           hk  == (thr[t].hook :> new) @@ hooks
       IN /\ hooks' = hk
          /\ heap' = Collect(heap @@ (new :> <<>>), Roots(hk, held, snap, it))
    /\ thr' = [thr EXCEPT ![t].pc = "scan"]
    /\ UNCHANGED <<pc, invokeVars, last, held, snap, decos>>

\* registry.py 25-27: the scan of self._hooks[hook_name] for an equal entry;
\* return when there is one.
register_scan(t) ==
    /\ thr[t].pc = "scan"
    /\ thr' = IF IsDuplicate(heap[hooks[thr[t].hook]], thr[t].app, thr[t].func)
              THEN register_return(thr, t)
              ELSE [thr EXCEPT ![t].pc = "append"]
    /\ UNCHANGED <<heap, hooks, pc, invokeVars, last, held, snap, decos>>

\* registry.py 29: self._hooks[hook_name].append((app_name, hook_func))
register_append(t) ==
    /\ thr[t].pc = "append"
    /\ heap' = [heap EXCEPT ![hooks[thr[t].hook]] = AddEntry(@, thr[t].app, thr[t].func)]
    /\ thr' = register_return(thr, t)
    /\ UNCHANGED <<hooks, pc, invokeVars, last, held, snap, decos>>

NextConc ==
    \/ \E t \in Threads, n \in ConcNames, f \in ConcFuncs, a \in Apps :
           register_check(t, n, f, a)
    \/ \E t \in Threads : register_create(t)
    \/ \E t \in Threads : register_scan(t)
    \/ \E t \in Threads : register_append(t)
    \/ \E n \in ConcNames : GetHooks(n)
    \/ GetAllHooks

SpecConc == Init /\ [][NextConc]_vars

\* ------------------------------------- hook() (django_hooks/decorators.py)
\* The decorated functions, with their __name__ and the dot-separated
\* components of their __module__.
DecoFuncs == {"fa", "fb"}

FuncName(f) ==
    CASE f = "fa" -> "on_save"
      [] f = "fb" -> "on_load"

ModuleOf(f) ==
    CASE f = "fa" -> <<"app1", "hooks">>
      [] f = "fb" -> <<"app2">>

\* decorators.py 22: func.__module__.split('.')[0]
FirstComponent(m) == m[1]

\* The hook names given to hook() explicitly; <<>> stands for None.
GivenNames == {<<>>, <<"custom">>}

DecoNames == {"custom", "on_save", "on_load"}

MaxDecorators == 2

\* decorators.py 6, 27: hook(hook_name) returns a new closure over hook_name.
Hook(given) ==
    /\ pc = "idle"
    /\ Len(decos) < MaxDecorators
    /\ decos' = Append(decos, [hook_name |-> given, given |-> given])
    /\ last' = [op |-> "hook", given |-> given]
    /\ UNCHANGED <<heap, hooks, pc, invokeVars, held, snap, thr>>

\* decorators.py 16-25: decorator(func); nonlocal hook_name makes line 19
\* assign the closure's cell, which the next call of this decorator reads.
Decorate(d, func) ==
    /\ pc = "idle"
    /\ d \in DOMAIN decos
    /\ LET cell == IF decos[d].hook_name = <<>> THEN <<FuncName(func)>>
                   ELSE decos[d].hook_name
           app_name == FirstComponent(ModuleOf(func))
           r == register(heap, hooks, cell[1], func, app_name)
       IN /\ decos' = [decos EXCEPT ![d].hook_name = cell]
          /\ hooks' = r.hooks
          /\ heap' = Collect(r.heap, Roots(r.hooks, held, snap, it))
          /\ last' = [op |-> "decorate", deco |-> d, given |-> decos[d].given,
                      fresh |-> decos[d].hook_name = decos[d].given,
                      func |-> func, hook |-> cell[1], app |-> app_name, ret |-> func]
    /\ UNCHANGED <<pc, invokeVars, held, snap, thr>>

NextDeco ==
    \/ \E g \in GivenNames : Hook(g)
    \/ \E d \in 1 .. MaxDecorators, f \in DecoFuncs : Decorate(d, f)
    \/ \E n \in DecoNames : GetHooks(n)
    \/ GetAllHooks
    \/ Clear

SpecDeco == Init /\ [][NextDeco]_vars

\* ------------------------------------------------- aggregators on their own
\* Bound on the length of a results list handed to an aggregator.
MaxResults == 3

\* The results the aggregators are applied to.
PyValues ==
    { PyNone, PyBool(FALSE), PyInt(0), PyInt(1), PyStr(""), PyList(<<>>),
      PyList(<<PyInt(1), PyList(<<PyInt(2)>>)>>),
      PyDict(<< <<"a", PyInt(1)>> >>), PyDict(<< <<"b", PyInt(2)>> >>),
      PyDict(<< <<"a", PyInt(3)>>, <<"c", PyInt(2)>> >>) }

InitPure ==
    /\ heap = <<>> /\ hooks = <<>> /\ pc = "idle" /\ hook_name = "" /\ it = 0
    /\ idx = 0 /\ results = <<>> /\ events = <<>>
    /\ results_list \in UNION {[1 .. k -> PyValues] : k \in 0 .. MaxResults}
    /\ start = <<>> /\ last = [op |-> "init"] /\ held = 0 /\ snap = <<>>
    /\ thr = [t \in Threads |-> ThreadIdle] /\ decos = <<>>

\* aggregator(results) called directly on a list of results.
ApplyAggregator(agg) ==
    /\ pc = "idle"
    /\ LET a == Aggregate(agg, results_list)
       IN last' = [op |-> "aggregate", agg |-> agg, input |-> results_list,
                   err |-> a.err, ret |-> a.val]
    /\ UNCHANGED <<heap, hooks, pc, invokeVars, held, snap, thr, decos>>

NextPure == \E agg \in Aggregators : ApplyAggregator(agg)

SpecPure == InitPure /\ [][NextPure]_vars

\* What get_hooks(n) would return now.
GetHooksView(n) == LET r == get_hooks(heap, hooks, n) IN r.heap[r.ref]

\* ------------------------------------------------------------------ claims

\* C1: under every hook name the stored sequence holds no two entries with the
\* same (ownerId, callable); after register(h, f, a) exactly one entry (a, f)
\* is stored under h, also when the triple was registered before.
C1_NoDuplicateEntries ==
    /\ \A n \in DOMAIN Table : \A i, j \in DOMAIN Table[n] :
           i # j => Table[n][i] # Table[n][j]
    /\ last.op = "register" =>
           /\ last.hook \in DOMAIN Table
           /\ Count(Table[last.hook], <<last.app, last.func>>) = 1

C1_Witness ==
    /\ last.op = "register" /\ last.dup
    /\ Len(Table[last.hook]) >= 2
    /\ Table[last.hook][2] = <<last.app, last.func>>

\* C2: a register(h, f, a) call appends (a, f) at the end of h's sequence when
\* no equal entry is stored there and otherwise changes nothing; the sequences
\* of the other hook names stay as they are and h's earlier entries keep
\* their order.
C2_RegisterAppendsAtEnd ==
    [][(last' # last /\ last'.op = "register") =>
          LET n == last'.hook
              e == <<last'.app, last'.func>>
          IN IF HasEntry(Table, n, e[1], e[2])
             THEN Table' = Table
             ELSE /\ DOMAIN Table' = DOMAIN Table \cup {n}
                  /\ Table'[n] = (IF n \in DOMAIN Table THEN Table[n] ELSE <<>>) \o <<e>>
                  /\ \A m \in DOMAIN Table \ {n} : Table'[m] = Table[m]]_vars

C2_Witness ==
    /\ last.op = "register" /\ ~last.dup
    /\ LET s == Table[last.hook]
       IN /\ Len(s) >= 2
          /\ s[Len(s)] = <<last.app, last.func>>
          /\ \E i \in 1 .. Len(s) - 1 : s[i][2] = last.func /\ s[i][1] # last.app
    /\ \E m \in DOMAIN Table : m # last.hook /\ HasEntry(Table, m, last.app, last.func)

\* The return values of the entries of s that do not fail, in order.
NonFailingValues(s) ==
    LET ok == SelectSeq(s, LAMBDA e : ~Fails(e[2]))
    IN [i \in 1 .. Len(ok) |-> Behaviour(ok[i][2]).value]

NumFailing(s) == Cardinality({i \in DOMAIN s : Fails(s[i][2])})

\* C3: invoke(h) returns exactly the return values of the non-failing
\* registrations under h, in registration order, so as many values as there
\* are registrations minus failing ones (stated for an invoke during which
\* the registrations of h did not change).
C3_InvokeReturnsAllValues ==
    (last.op = "invoke" /\ last.start = last.regs) =>
        /\ Values(last.ret) = NonFailingValues(last.start)
        /\ Len(last.ret) = Len(last.start) - NumFailing(last.start)

\* The same statement of the list-building invoke of django_hooks/core.py.
C3_ListInvokeReturnsAllValues ==
    (last.op = "invoke" /\ last.start = last.regs) =>
        /\ last.ret_list = NonFailingValues(last.start)
        /\ Len(last.ret_list) = Len(last.start) - NumFailing(last.start)

\* C4: an invoke returns to its caller (no failure of a callable gets out)
\* and has called every registration it started with exactly once, wherever
\* the failing registrations stand.
C4_FailureIsolation ==
    last.op = "invoke" =>
        /\ last.outcome = "returned"
        /\ \A i \in DOMAIN last.start :
               Count(Calls(last.events), last.start[i]) = 1

C4_Witness ==
    /\ last.op = "invoke" /\ last.outcome = "returned"
    /\ Len(last.start) = 3
    /\ Fails(last.start[1][2]) /\ ~Fails(last.start[2][2]) /\ Fails(last.start[3][2])
    /\ Len(Calls(last.events)) = 3

\* The reports of a run of the loop: a failing call is followed at once by
\* its one report (hook name, owner, error text), a call that succeeds by
\* none, and only the calls that succeeded left a value.
ReportsFollowFailures(evs, res, reslist) ==
    /\ \A i \in DOMAIN evs :
          /\ (evs[i].type = "call" /\ Fails(evs[i].func)) =>
                 /\ i + 1 <= Len(evs)
                 /\ evs[i + 1] = [type |-> "log", hook |-> evs[i].hook,
                                  app |-> evs[i].app, func |-> evs[i].func,
                                  msg |-> Behaviour(evs[i].func).msg]
          /\ (evs[i].type = "call" /\ ~Fails(evs[i].func)) =>
                 (i = Len(evs) \/ evs[i + 1].type = "call")
          /\ evs[i].type = "log" =>
                 i > 1 /\ evs[i - 1].type = "call" /\ Fails(evs[i - 1].func)
    /\ reslist = NonFailingValues(Calls(evs))
    /\ \A k \in DOMAIN res : \E i \in DOMAIN evs :
          /\ evs[i].type = "call" /\ ~Fails(evs[i].func)
          /\ res[k] = <<evs[i].app, Behaviour(evs[i].func).value>>

\* C5: during invoke every failing registration produces exactly one error
\* report, emitted before the next registration is called and carrying the
\* hook name, the owner and the error text; a registration that succeeds
\* produces none, and a failing one adds no value to the result.
C5_OneReportPerFailure ==
    /\ pc = "running" => ReportsFollowFailures(events, results, results_list)
    /\ last.op = "invoke" =>
           /\ ReportsFollowFailures(last.events, last.ret, last.ret_list)
           /\ Len(Logs(last.events)) = NumFailing(Calls(last.events))

C5_Witness ==
    /\ last.op = "invoke"
    /\ Len(last.events) = 4
    /\ last.events[1].type = "call" /\ last.events[2].type = "log"
    /\ last.events[2].app = last.start[1][1] /\ last.events[2].msg = "boom"
    /\ last.events[3].type = "call" /\ last.events[4].type = "call"
    /\ Len(last.ret) = 2

\* C6: for a hook name without registrations, never registered or registered
\* and cleared, get_hooks and invoke return an empty result and no error.
C6_UnknownHookIsEmpty ==
    /\ (last.op = "get_hooks" /\ ~last.known) => (~last.err /\ last.ret = <<>>)
    /\ (last.op = "invoke" /\ ~last.known) =>
           /\ last.outcome = "returned"
           /\ last.ret = <<>> /\ last.ret_list = <<>> /\ last.events = <<>>

C6_Witness ==
    /\ last.op = "invoke" /\ ~last.known /\ last.re
    /\ last.outcome = "returned" /\ last.ret = <<>>

\* C8: an invoke in flight calls exactly the registrations that were there
\* when it started, each once, and none that a callable registered meanwhile.
C8_InvokeIteratesSnapshot ==
    /\ pc = "running" => Range(Calls(events)) \subseteq Range(start)
    /\ last.op = "invoke" => Calls(last.events) = last.start

\* C9: after clear() the table is empty (get_hooks of every name is empty,
\* get_all_hooks is the empty mapping), and registering a triple again that
\* was stored before the clear() stores exactly that one entry.
C9_ClearEmptiesTable ==
    /\ last.op = "clear" =>
           /\ TableOf(heap, get_all_hooks(hooks)) = <<>>
           /\ \A n \in HookNames : GetHooksView(n) = <<>>
    /\ (last.op = "register" /\ last.re) =>
           /\ DOMAIN Table = {last.hook}
           /\ Table[last.hook] = << <<last.app, last.func>> >>

C9_Witness ==
    /\ last.op = "register" /\ last.re
    /\ Table[last.hook] = << <<last.app, last.func>> >>

\* C7: a sequence returned by get_hooks gives no way to change the table:
\* appending to it, removing from it or reordering it changes nothing a later
\* get_hooks sees, and a register() call does not change a sequence obtained
\* before.
C7_ReturnedListIsolated ==
    [][/\ last'.op = "mutate_held" =>
              \A n \in HookNames : GetHooksView(n)' = GetHooksView(n)
       /\ (last'.op = "register" /\ held # 0) => heap'[held] = heap[held]]_vars

\* C10: the mapping get_all_hooks returned is a snapshot: register() and
\* clear() leave it as it was, and changing it (its keys or its sequences)
\* leaves the table as it was.
C10_GetAllIsSnapshot ==
    [][/\ (last'.op \in {"register", "clear"} /\ snap # <<>>) => SnapView' = SnapView
       /\ last'.op = "mutate_snap" => Table' = Table]_vars

KeysOf(ps) == {ps[j][1] : j \in DOMAIN ps}

SetMax(S) == CHOOSE x \in S : \A y \in S : y <= x

SetMin(S) == CHOOSE x \in S : \A y \in S : x <= y

\* C13: merge-map returns the mapping whose keys are the union of the keys of
\* the results that are mappings, each key with the value of the last such
\* result that has it; other results are skipped without failure and an
\* empty input gives the empty mapping.
C13_MergeMapLastWins ==
    (last.op = "aggregate" /\ last.agg = "dict") =>
        LET rs == last.input
            R == last.ret.pairs
            dicts == {i \in DOMAIN rs : rs[i].t = "dict"}
        IN /\ ~last.err /\ last.ret.t = "dict"
           /\ KeysOf(R) = UNION {KeysOf(rs[i].pairs) : i \in dicts}
           /\ Cardinality(KeysOf(R)) = Len(R)
           /\ \A j \in DOMAIN R :
                  LET m == SetMax({i \in dicts : R[j][1] \in KeysOf(rs[i].pairs)})
                  IN \E q \in DOMAIN rs[m].pairs : rs[m].pairs[q] = R[j]
           /\ rs = <<>> => R = <<>>

C13_Witness ==
    /\ last.op = "aggregate" /\ last.agg = "dict"
    /\ last.input = << PyDict(<< <<"a", PyInt(1)>> >>), PyInt(1),
                       PyDict(<< <<"a", PyInt(3)>>, <<"c", PyInt(2)>> >>) >>
    /\ last.ret = PyDict(<< <<"a", PyInt(3)>>, <<"c", PyInt(2)>> >>)

\* C14: first-non-empty returns the first result that is not None, also when
\* that result is falsy (False, 0, "", []), and returns None exactly when the
\* input is empty or holds only None.
C14_FirstNonNone ==
    (last.op = "aggregate" /\ last.agg = "first") =>
        LET rs == last.input
            present == {i \in DOMAIN rs : rs[i] # PyNone}
        IN /\ ~last.err
           /\ present # {} => last.ret = rs[SetMin(present)]
           /\ (last.ret = PyNone) <=> (present = {})

C14_Witness ==
    /\ last.op = "aggregate" /\ last.agg = "first"
    /\ last.input = <<PyNone, PyBool(FALSE), PyInt(1)>>
    /\ last.ret = PyBool(FALSE)

\* How many outputs a result contributes to flatten, and which.
PieceCount(v) == IF v.t = "list" THEN Len(v.items) ELSE 1

Piece(v, q) == IF v.t = "list" THEN v.items[q] ELSE v

PiecesBefore(rs, i) ==
    LET RECURSIVE Sum(_)
        Sum(j) == IF j = 0 THEN 0 ELSE PieceCount(rs[j]) + Sum(j - 1)
    IN Sum(i - 1)

\* C15: flatten returns, in input order, the elements of every result that is
\* a list and every other result itself, splicing one level only; an empty
\* input gives an empty output.
C15_FlattenOneLevel ==
    (last.op = "aggregate" /\ last.agg = "list") =>
        LET rs == last.input
            out == last.ret.items
        IN /\ ~last.err /\ last.ret.t = "list"
           /\ Len(out) = PiecesBefore(rs, Len(rs) + 1)
           /\ \A i \in DOMAIN rs : \A q \in 1 .. PieceCount(rs[i]) :
                  out[PiecesBefore(rs, i) + q] = Piece(rs[i], q)

C15_Witness ==
    /\ last.op = "aggregate" /\ last.agg = "list"
    /\ last.input = <<PyList(<<PyInt(1), PyList(<<PyInt(2)>>)>>), PyInt(0), PyList(<<>>)>>
    /\ last.ret.items = <<PyInt(1), PyList(<<PyInt(2)>>), PyInt(0)>>

\* C11: invoke_aggregate(h, agg) gives what agg gives on the values that
\* invoke(h) returned on the same registry state: it returns the same value,
\* and it fails exactly when agg fails on them (no failure isolation of its
\* own). Stated for the mapping-building and the list-building invoke.
C11_AggregateIsInvokeThenApply ==
    (last.op = "invoke_aggregate" /\ last.prev # <<>>) =>
        LET a == Aggregate(last.agg, Values(last.prev[1].ret))
            al == Aggregate(last.agg, last.prev[1].ret_list)
        IN /\ last.outcome = (IF a.err THEN "raised" ELSE "returned")
           /\ last.ret = a.val
           /\ last.outcome_list = (IF al.err THEN "raised" ELSE "returned")
           /\ last.ret_list = al.val

C11_Witness ==
    /\ last.op = "invoke_aggregate" /\ last.prev # <<>>
    /\ Len(last.prev[1].ret) = 2
    /\ last.agg = "sum" /\ last.outcome = "returned" /\ last.ret = PyInt(2)

SumOfNumbers(vs) ==
    LET RECURSIVE Total(_)
        Total(s) == IF s = <<>> THEN 0 ELSE s[1].n + Total(Tail(s))
    IN Total(vs)

AllNumbers(vs) == \A i \in DOMAIN vs : IsNumber(vs[i])

\* C12: invoke_aggregate(h, sum) returns the arithmetic sum of the return
\* values of all non-failing registrations under h, one addend for each
\* registration whoever owns it, and 0 when there is none (stated for a call
\* during which the registrations of h did not change and whose callables
\* return numbers).
C12_SumOverAllRegistrations ==
    (/\ last.op = "invoke_aggregate" /\ last.agg = "sum"
     /\ last.start = last.regs /\ AllNumbers(NonFailingValues(last.start))) =>
        /\ last.outcome = "returned"
        /\ last.ret = PyInt(SumOfNumbers(NonFailingValues(last.start)))

\* The same statement of the list-building invoke of django_hooks/core.py.
C12_ListSumOverAllRegistrations ==
    (/\ last.op = "invoke_aggregate" /\ last.agg = "sum"
     /\ last.start = last.regs /\ AllNumbers(NonFailingValues(last.start))) =>
        /\ last.outcome_list = "returned"
        /\ last.ret_list = PyInt(SumOfNumbers(NonFailingValues(last.start)))

\* C16: when invoke_aggregate finishes, it fails towards its caller exactly
\* when the aggregator fails on the collected results (sum over a result that
\* is not a number); the failures of registered callables were swallowed by
\* invoke and never make the call fail; and the step leaves the registry's
\* table as it was.
C16_AggregatorFailureSurfaces ==
    [][(last.op = "aggregating" /\ last'.op = "invoke_aggregate") =>
          /\ (last'.outcome = "raised") <=>
                 (last.agg = "sum" /\ ~AllNumbers(Values(results)))
          /\ (last'.outcome_list = "raised") <=>
                 (last.agg = "sum" /\ ~AllNumbers(results_list))
          /\ Table' = Table]_vars

C16_Witness ==
    /\ last.op = "invoke_aggregate" /\ last.agg = "sum"
    /\ last.outcome = "raised"
    /\ Logs(last.events) # <<>>
    /\ Len(last.invoked) = 2
    /\ Table[last.hook] = last.start

\* A step that completes a call of register made by the caller.
RegisterStep == last' # last /\ last'.op = "register"

\* A step that completes a call of clear.
ClearStep == last' # last /\ last'.op = "clear"

\* A step of invoke that calls a registered callable which itself registers.
ReentrantStep ==
    /\ pc = "running" /\ idx < Len(heap[it]) /\ idx' = idx + 1
    /\ Behaviour(heap[it][idx + 1][2]).kind = "register"

\* C20: only register and clear change the table. Every step of invoke,
\* invoke_aggregate, get_hooks / get_hook_implementations and get_all_hooks
\* other than the call of a callable that itself registers leaves it unchanged,
\* names included:
\* looking up or invoking an unknown hook name creates no entry for it.
C20_ReadersLeaveTableUnchanged ==
    [][(~RegisterStep /\ ~ClearStep /\ ~ReentrantStep) =>
          (Table' = Table /\ DOMAIN hooks' = DOMAIN hooks)]_vars

C20_Witness ==
    /\ last.op = "invoke_aggregate" /\ last.hook = "h2"
    /\ last.outcome = "returned"
    /\ "h2" \notin DOMAIN hooks
    /\ HasRegistrations(Table, "h1")

\* The registrations whose register() call has returned in some thread.
Returned == UNION {thr[t].returned : t \in Threads}

AllReturned == \A t \in Threads : thr[t].pc = "idle"

\* C17: with register() calls of several threads interleaved statement by
\* statement, no hook name ever holds the same (ownerId, callable) twice, and
\* when all threads registered the same triple and their calls have returned,
\* it is stored exactly once.
C17_ConcurrentDedup ==
    /\ \A n \in DOMAIN Table : \A e \in Range(Table[n]) : Count(Table[n], e) = 1
    /\ \A r \in Returned :
           (AllReturned /\ \A t \in Threads : thr[t].returned = {r})
               => Count(GetHooksView(r[1]), <<r[2], r[3]>>) = 1

\* C18: once the register() calls of all threads have returned, every
\* registration they made is in what get_hooks returns for its hook name.
C18_NoLostRegistration ==
    AllReturned =>
        \A r \in Returned : Count(GetHooksView(r[1]), <<r[2], r[3]>>) >= 1

\* C19: what a reader gets from get_all_hooks while register() calls are in
\* progress is the table before or after each of them: a hook name in it
\* always has at least one registration, never an empty sequence.
C19_ReaderSeesNoIntermediateState ==
    last.op = "get_all_hooks" =>
        \A n \in DOMAIN last.ret : last.ret[n] # <<>>

Clears(e) == Behaviour(e[2]).kind = "clear"

\* What the i-th registration of s returns when all of s is called in order
\* and nothing but its own callables touches the registry: a callable that
\* looks up the hook gets the registrations of s, or nothing once a callable
\* before it has cleared the registry.
ExpectedValue(s, i) ==
    LET b == Behaviour(s[i][2])
    IN IF b.kind = "lookup"
       THEN (IF \E j \in 1 .. (i - 1) : Clears(s[j]) THEN PyInt(0) ELSE PyInt(Len(s)))
       ELSE b.value

ExpectedList(s) ==
    LET RECURSIVE L(_)
        L(i) == IF i = 0 THEN <<>>
                ELSE IF Fails(s[i][2]) THEN L(i - 1)
                     ELSE Append(L(i - 1), ExpectedValue(s, i))
    IN L(Len(s))

ExpectedDict(s) ==
    LET RECURSIVE D(_)
        D(i) == IF i = 0 THEN <<>>
                ELSE IF Fails(s[i][2]) THEN D(i - 1)
                     ELSE DictSet(D(i - 1), s[i][1], ExpectedValue(s, i))
    IN D(Len(s))

\* C21: an invoke(h) during which one of the callables calls clear() still
\* calls every registration of the sequence it started with, once and in
\* order, and returns their results; get_hooks(h) after the clear() returns
\* the empty sequence, to a later callable of the same invoke (its result
\* says so) and to a caller after the invoke.
C21_ClearDuringInvoke ==
    (last.op = "invoke" /\ \E i \in DOMAIN last.start : Clears(last.start[i])) =>
        /\ last.outcome = "returned"
        /\ Calls(last.events) = last.start
        /\ last.ret_list = ExpectedList(last.start)
        /\ last.ret = ExpectedDict(last.start)
        /\ GetHooksView(last.hook) = <<>>

C21_Witness ==
    /\ last.op = "invoke"
    /\ last.start = <<<<"app1", "look">>, <<"app1", "clr">>, <<"app2", "look">>>>
    /\ last.ret_list = <<PyInt(3), PyInt(3), PyInt(0)>>
    /\ Len(Calls(last.events)) = 3
    /\ GetHooksView("h1") = <<>>

\* The hook name the decorator was made for, or the function's own name.
NameFor(given, func) == IF given = <<>> THEN FuncName(func) ELSE given[1]

\* C22: a decorator made by hook(name) registers the function it is applied to
\* under name, or under the function's own __name__ when hook() got no name,
\* with the first component of the function's module as owner, and returns
\* the function; also when the same decorator object was applied to other
\* functions before.
C22_HookRegistersUnderOwnName ==
    last.op = "decorate" =>
        /\ last.hook = NameFor(last.given, last.func)
        /\ last.app = FirstComponent(ModuleOf(last.func))
        /\ HasEntry(Table, NameFor(last.given, last.func),
                    FirstComponent(ModuleOf(last.func)), last.func)
        /\ last.ret = last.func

\* The same statement of a decorator object that is applied for the first time
\* or was made with an explicit name.
C22_FreshDecoratorRegistersUnderOwnName ==
    (last.op = "decorate" /\ (last.fresh \/ last.given # <<>>)) =>
        /\ last.hook = NameFor(last.given, last.func)
        /\ last.app = FirstComponent(ModuleOf(last.func))
        /\ HasEntry(Table, NameFor(last.given, last.func),
                    FirstComponent(ModuleOf(last.func)), last.func)
        /\ last.ret = last.func

====
